---- MODULE Spec2Model ----
(***************************************************************************)
(* A model of the toolbox repository: the decorator utilities (retry,      *)
(* parametrized, check_type / check_call, typeguard, multipledispatch) and *)
(* the numeric helpers (chebspace, _D_op, D_op, derivative, rel_coords).   *)
(* Each subsystem has its own variables and its own specification; the     *)
(* variables of the other subsystems stay at their initial values.         *)
(***************************************************************************)
EXTENDS Integers, Sequences, FiniteSets, TLC

(***************************************************************************)
(* Bounds of the model.                                                    *)
(***************************************************************************)
MaxRetries == 3
\* Largest number of points of a hand-made grid, largest coordinate of one,
\* and largest derivative order asked of D_op.
MaxN == 3
MaxCoord == 2
MaxK == 3
\* Largest length of the array handed to rel_coords.
MaxCoords == 2
\* Largest number of positional arguments of a call of a guarded or
\* dispatched function.
MaxArgs == 2
\* Largest length of the dispatch registry.
MaxRegistry == 3
\* The most elements of coords the body of a with statement assigns to
MaxWrites == 1


(***************************************************************************)
(* The state: one group of variables per subsystem.                        *)
(***************************************************************************)
VARIABLES
    max_retries,   \* retry's max_retries parameter
    exceptions,    \* retry's exceptions parameter: the classes caught
    delay,         \* retry's delay parameter
    pc_retry,      \* position of one call of wrapper: decorated, loop, tail, done
    attempt,       \* the loop variable of wrapper
    calls,         \* what each call of func did so far: "ok" or the class raised
    sleeps,        \* how many times sleep(delay) ran
    outcome        \* how the wrapper call ended

varsRetry == <<max_retries, exceptions, delay, pc_retry, attempt, calls, sleeps, outcome>>

VARIABLES
    cheb_a, cheb_b, cheb_n,  \* the arguments a, b, n of chebspace
    grid,                    \* what chebspace returned (<<>> before the call)
    x_i,                     \* the grid handed to D_op / derivative
    k,                       \* the derivative order handed to D_op
    D1,                      \* D_op's local D1
    D,                       \* D_op's local D, and what it returns
    pc_dop,                  \* position in D_op: start, grid, loop, done, applied
    iter,                    \* how many iterations of D_op's loop have run
    y_i,                     \* the data handed to derivative
    dy                       \* what derivative returned

varsCheb == <<cheb_a, cheb_b, cheb_n, grid, x_i, k, D1, D, pc_dop, iter, y_i, dy>>

VARIABLES
    coords,      \* the caller's array, mutated in place
    origin,      \* rel_coords' origin argument
    angle,       \* rel_coords' angle argument
    entry,       \* the array's contents when the with statement was entered
    pc_rel,      \* outside, body, exited
    body_wrote,  \* the indices of coords the body of the with statement assigned to
    body_left,   \* coords as the body left it, in the relative frame (<<>> before exit)
    body_raised  \* whether the with statement ended by an exception of its body

varsRel == <<coords, origin, angle, entry, pc_rel, body_wrote, body_left, body_raised>>

VARIABLES
    g_func,    \* the function f that the programmer decorates
    dargs,     \* the positional arguments given to typeguard(...)
    dkwargs,   \* the keyword arguments given to typeguard(...)
    guard,     \* what the decoration bound to f's name
    pc_guard,  \* define, decorated, called
    g_call     \* the last call of the guard and how it went

varsGuard == <<g_func, dargs, dkwargs, guard, pc_guard, g_call>>

VARIABLES
    registry,    \* self.registry: the implementations, by name, oldest first
    typecheck,   \* self.typecheck
    d_instance,  \* self._instance ("None" when unbound)
    d_owner,     \* self._owner ("None" when unbound)
    d_copy,      \* the object __get__ returned when it made a copy
    d_last       \* the last operation on the object and how it went

varsDispatch == <<registry, typecheck, d_instance, d_owner, d_copy, d_last>>

vars == <<varsRetry, varsCheb, varsRel, varsGuard, varsDispatch>>

\* The variables of the other subsystems, which a subsystem's actions leave alone
othersRetry == <<varsCheb, varsRel, varsGuard, varsDispatch>>
othersCheb == <<varsRetry, varsRel, varsGuard, varsDispatch>>
othersRel == <<varsRetry, varsCheb, varsGuard, varsDispatch>>
othersGuard == <<varsRetry, varsCheb, varsRel, varsDispatch>>
othersDispatch == <<varsRetry, varsCheb, varsRel, varsGuard>>

(***************************************************************************)
(*                       Exact rational arithmetic                         *)
(* numpy's float64 values are modelled by rationals <<num, den>> in lowest *)
(* terms with den > 0: the formulas of chebfun.py and sci.py are evaluated *)
(* in exact arithmetic.                                                    *)
(***************************************************************************)
Abs(z) == IF z < 0 THEN -z ELSE z

RECURSIVE GCD(_, _)
GCD(p, q) == IF q = 0 THEN p ELSE GCD(q, p % q)

RNorm(p, q) ==
    LET g == GCD(Abs(p), Abs(q))
        s == IF q < 0 THEN -1 ELSE 1
    IN  <<(s * p) \div g, Abs(q) \div g>>

R(z) == <<z, 1>>
RAdd(u, v) == RNorm(u[1] * v[2] + v[1] * u[2], u[2] * v[2])
RNeg(u) == <<-u[1], u[2]>>
RSub(u, v) == RAdd(u, RNeg(v))
RMul(u, v) == RNorm(u[1] * v[1], u[2] * v[2])
\* u / v for v # 0
RDiv(u, v) == RNorm(u[1] * v[2], u[2] * v[1])
RLe(u, v) == u[1] * v[2] <= v[1] * u[2]

RECURSIVE RSum(_)
RSum(seq) == IF seq = <<>> THEN R(0) ELSE RAdd(Head(seq), RSum(Tail(seq)))

(***************************************************************************)
(*                              chebfun.py                                 *)
(***************************************************************************)

\* np.linspace(start, stop, num) for num >= 1: num evenly spaced samples, the
\* first one start and, for num > 1, the last one stop.
Linspace(start, stop, num) ==
    IF num = 1 THEN <<start>>
    ELSE LET step == RDiv(RSub(stop, start), R(num - 1))
         IN  [j \in 1..num |->
                 IF j = num THEN stop ELSE RAdd(start, RMul(R(j - 1), step))]

\* np.cos(t * pi) for the multiples t of pi whose cosine is rational.
CosPi(t) ==
    CASE t = <<0, 1>> -> R(1)
      [] t = <<1, 3>> -> <<1, 2>>
      [] t = <<1, 2>> -> R(0)
      [] t = <<2, 3>> -> <<-1, 2>>
      [] t = <<1, 1>> -> R(-1)

\* The grid sizes for which every cos(theta_j) is rational.
GridSizes == {1, 2, 3, 4}

\* chebspace(a, b, n), theta in units of pi with the arguments in another order
ChebspaceReversed(qa, qb, num) ==
    LET theta == Linspace(R(0), R(1), num)
        g == [j \in 1..num |-> CosPi(theta[j])]
    IN  [j \in 1..num |->
            RAdd(RDiv(RAdd(qb, qa), R(2)), RMul(RDiv(RSub(qb, qa), R(2)), g[j]))]

\* chebspace(a, b, n): theta = np.linspace(pi, 0, n), in units of pi;
\* grid = np.cos(theta); (b + a) / 2 + (b - a) / 2 * grid.
Chebspace(qa, qb, num) ==
    LET theta == Linspace(R(1), R(0), num)
        g == [j \in 1..num |-> CosPi(theta[j])]
    IN  [j \in 1..num |->
            RAdd(RDiv(RAdd(qb, qa), R(2)), RMul(RDiv(RSub(qb, qa), R(2)), g[j]))]

\* np.eye(N)
Eye(N) == [r \in 1..N |-> [c \in 1..N |-> IF r = c THEN R(1) ELSE R(0)]]

\* A @ B for square matrices of the same size
MatMul(A, B) ==
    [r \in 1..Len(A) |-> [c \in 1..Len(A) |->
        RSum([m \in 1..Len(A) |-> RMul(A[r][m], B[m][c])])]]

\* M @ v for a matrix and a vector
MatVec(M, v) ==
    [r \in 1..Len(M) |-> RSum([m \in 1..Len(M) |-> RMul(M[r][m], v[m])])]

\* M.sum(axis=0): the sums of the columns
ColSums(M) == [c \in 1..Len(M) |-> RSum([r \in 1..Len(M) |-> M[r][c]])]

\* M.sum(axis=1): the sums of the rows
RowSums(M) == [r \in 1..Len(M) |-> RSum(M[r])]

\* c_i of _D_op: ones, 2 at both ends, times (-1) ** i  (i counted from 0)
C_i(N) ==
    [j \in 1..N |->
        (IF j = 1 \/ j = N THEN 2 ELSE 1) * (IF (j - 1) % 2 = 0 THEN 1 ELSE -1)]

\* _D_op(x_i) for pairwise distinct points:
\*   dx = x_i - x_i.T;  D1 = c_i @ (1 / c_i.T) / (dx + identity);
\*   D1[i, i] -= D1.sum(axis=1)
D_op1(x) ==
    LET N == Len(x)
        c == C_i(N)
        dx == [r \in 1..N |-> [j \in 1..N |-> RSub(x[j], x[r])]]
        identity == Eye(N)
        M == [r \in 1..N |-> [j \in 1..N |->
                 RDiv(RMul(R(c[r]), RDiv(R(1), R(c[j]))),
                      RAdd(dx[r][j], identity[r][j]))]]
        sums == RowSums(M)
    IN  [r \in 1..N |-> [j \in 1..N |->
            IF r = j THEN RSub(M[r][j], sums[r]) ELSE M[r][j]]]

\* `D @= D1` on a D that is D1 itself (no copy taken): both names change
MatmulInPlaceAliased(Dm, D1m) == <<MatMul(Dm, D1m), MatMul(Dm, D1m)>>

\* `D = D1.copy()` ... `D @= D1`: the new <<D, D1>>; D1 is another array
MatmulInPlace(Dm, D1m) == <<MatMul(Dm, D1m), D1m>>

\* Sequences of pairwise distinct integer points, the hand-made grids
DistinctGrids ==
    {g \in UNION {[1..m -> 0..MaxCoord] : m \in 1..MaxN} :
        \A p, q \in 1..Len(g) : p # q => g[p] # g[q]}

PairwiseDistinct(x) == \A p, q \in 1..Len(x) : p # q => x[p] # x[q]

\* Nothing has been called: no interval, no grid, no matrices
InitCheb ==
    /\ cheb_a = 0
    /\ cheb_b = 0
    /\ cheb_n = 0
    /\ k = 0
    /\ grid = <<>>
    /\ x_i = <<>>
    /\ D1 = <<>>
    /\ D = <<>>
    /\ pc_dop = "start"
    /\ iter = 0
    /\ y_i = <<>>
    /\ dy = <<>>

\* grid = chebspace(a, b, n), then the grid is handed on when its points are
\* pairwise distinct
CallChebspace(a, b, n) ==
    /\ pc_dop = "start"
    /\ grid = <<>>
    /\ cheb_a' = a
    /\ cheb_b' = b
    /\ cheb_n' = n
    /\ grid' = Chebspace(R(a), R(b), n)
    /\ IF PairwiseDistinct(grid')
         THEN x_i' = grid' /\ pc_dop' = "grid"
         ELSE UNCHANGED <<x_i, pc_dop>>
    /\ UNCHANGED <<k, D1, D, iter, y_i, dy>>
    /\ UNCHANGED othersCheb

\* A hand-made grid is handed to D_op instead
TakeGrid(g) ==
    /\ pc_dop = "start"
    /\ grid = <<>>
    /\ x_i' = [j \in 1..Len(g) |-> R(g[j])]
    /\ pc_dop' = "grid"
    /\ UNCHANGED <<cheb_a, cheb_b, cheb_n, grid, k, D1, D, iter, y_i, dy>>
    /\ UNCHANGED othersCheb

\* D_op(x_i, k) up to its loop: `if k == 0: return np.eye(N)`, else
\* D1 = _D_op(x_i); D = D1.copy()
DopEnter(order) ==
    /\ pc_dop = "grid"
    /\ k' = order
    /\ IF order = 0
         THEN /\ D' = Eye(Len(x_i))
              /\ pc_dop' = "done"
              /\ UNCHANGED D1
         ELSE /\ D1' = D_op1(x_i)
              /\ D' = D_op1(x_i)
              /\ pc_dop' = "loop"
    /\ iter' = 0
    /\ UNCHANGED <<cheb_a, cheb_b, cheb_n, grid, x_i, y_i, dy>>
    /\ UNCHANGED othersCheb

\* One iteration of `for _ in range(k - 1): D @= D1`
DopStep ==
    /\ pc_dop = "loop"
    /\ iter < k - 1
    /\ D' = MatmulInPlace(D, D1)[1]
    /\ D1' = MatmulInPlace(D, D1)[2]
    /\ iter' = iter + 1
    /\ UNCHANGED <<cheb_a, cheb_b, cheb_n, grid, x_i, k, pc_dop, y_i, dy>>
    /\ UNCHANGED othersCheb

\* The loop is over: `return D.m` for a dimensionless quantity, else
\* `return D`; either way the matrix accumulated in D
DopReturn ==
    /\ pc_dop = "loop"
    /\ iter >= k - 1
    /\ pc_dop' = "done"
    /\ UNCHANGED <<cheb_a, cheb_b, cheb_n, grid, x_i, k, D1, D, iter, y_i, dy>>
    /\ UNCHANGED othersCheb

\* derivative(y_i, x_i, k) = D_op(x_i, k) @ y_i, for the D just computed
Derivative(y) ==
    /\ pc_dop = "done"
    /\ y_i' = y
    /\ dy' = MatVec(D, y)
    /\ pc_dop' = "applied"
    /\ UNCHANGED <<cheb_a, cheb_b, cheb_n, grid, x_i, k, D1, D, iter>>
    /\ UNCHANGED othersCheb

\* The data derivative is applied to: the constant vectors and the grid itself
DataFor(x) == {[j \in 1..Len(x) |-> R(v)] : v \in -1..2} \cup {x}

NextCheb ==
    \/ \E a \in -1..1, b \in -1..1, n \in GridSizes : CallChebspace(a, b, n)
    \/ \E g \in DistinctGrids : TakeGrid(g)
    \/ \E order \in 0..MaxK : DopEnter(order)
    \/ DopStep
    \/ DopReturn
    \/ \E y \in DataFor(x_i) : Derivative(y)


(***************************************************************************)
(*                         rel_coords (sci.py)                             *)
(* Complex numbers are pairs <<re, im>> of rationals.                      *)
(***************************************************************************)

CAdd(u, v) == <<RAdd(u[1], v[1]), RAdd(u[2], v[2])>>
CSub(u, v) == <<RSub(u[1], v[1]), RSub(u[2], v[2])>>
CMul(u, v) ==
    <<RSub(RMul(u[1], v[1]), RMul(u[2], v[2])),
      RAdd(RMul(u[1], v[2]), RMul(u[2], v[1]))>>
\* u / v for v # 0
CDiv(u, v) ==
    LET den == RAdd(RMul(v[1], v[1]), RMul(v[2], v[2]))
    IN  <<RDiv(RAdd(RMul(u[1], v[1]), RMul(u[2], v[2])), den),
          RDiv(RSub(RMul(u[2], v[1]), RMul(u[1], v[2])), den)>>

\* The angles whose rotation np.exp(1j * angle) has rational parts
Angles == {"0", "pi/2", "pi", "-pi/2", "atan(4/3)"}

\* rotation = np.exp(1j * angle)
Rotation(ang) ==
    CASE ang = "0" -> <<R(1), R(0)>>
      [] ang = "pi/2" -> <<R(0), R(1)>>
      [] ang = "pi" -> <<R(-1), R(0)>>
      [] ang = "-pi/2" -> <<R(0), R(-1)>>
      [] ang = "atan(4/3)" -> <<<<3, 5>>, <<4, 5>>>>

\* The complex numbers with integer parts in -1..1
SmallComplex == {<<R(u), R(v)>> : u, v \in -1..1}

\* `coords -= origin; coords /= rotation`
ToRelative(cs, org, rot) == [j \in 1..Len(cs) |-> CDiv(CSub(cs[j], org), rot)]

\* The finally block with its two statements in the other order
FromRelativeSwapped(cs, org, rot) == [j \in 1..Len(cs) |-> CMul(CAdd(cs[j], org), rot)]

\* `coords *= rotation; coords += origin`
FromRelative(cs, org, rot) == [j \in 1..Len(cs) |-> CAdd(CMul(cs[j], rot), org)]

InitRel ==
    /\ coords \in UNION {[1..m -> SmallComplex] : m \in 1..MaxCoords}
    /\ origin \in {<<R(0), R(0)>>, <<R(1), R(0)>>, <<R(1), R(-2)>>}
    /\ angle \in Angles
    /\ entry = coords
    /\ pc_rel = "outside"
    /\ body_wrote = {}
    /\ body_left = <<>>
    /\ body_raised = FALSE

\* `with rel_coords(coords, origin, angle):` is entered: the generator runs
\* up to its yield
Enter ==
    /\ pc_rel = "outside"
    /\ coords' = ToRelative(coords, origin, Rotation(angle))
    /\ pc_rel' = "body"
    /\ UNCHANGED <<origin, angle, entry, body_wrote, body_left, body_raised>>
    /\ UNCHANGED othersRel

\* The body assigns to an element of coords, in the relative frame; it
\* assigns to at most MaxWrites elements, once each
BodyWrites(j, v) ==
    /\ pc_rel = "body"
    /\ Cardinality(body_wrote) < MaxWrites
    /\ j \in 1..Len(coords)
    /\ j \notin body_wrote
    /\ coords' = [coords EXCEPT ![j] = v]
    /\ body_wrote' = body_wrote \cup {j}
    /\ UNCHANGED <<origin, angle, entry, pc_rel, body_left, body_raised>>
    /\ UNCHANGED othersRel

\* The body ends, normally or by raising; either way the finally block runs
Exit(raised) ==
    /\ pc_rel = "body"
    /\ coords' = FromRelative(coords, origin, Rotation(angle))
    /\ body_left' = coords
    /\ body_raised' = raised
    /\ pc_rel' = "exited"
    /\ UNCHANGED <<origin, angle, entry, body_wrote>>
    /\ UNCHANGED othersRel

\* What the body may assign to an element
BodyValues == {<<R(0), R(0)>>, <<R(1), R(1)>>}

NextRel ==
    \/ Enter
    \/ \E j \in 1..MaxCoords, v \in BodyValues : BodyWrites(j, v)
    \/ \E raised \in BOOLEAN : Exit(raised)


(***************************************************************************)
(*            check_type, check_call (decorators/typechecking.py)          *)
(*                                                                         *)
(* A class is its name.  An expected type (a class, a tuple of classes, a  *)
(* union) is [isType, members]: isType is isinstance(expected_type, type), *)
(* members the classes check_type compares type(arg) with.  A value is     *)
(* [type, items]: its class and, for a tuple or a dict, its items as       *)
(* [key, val] with val a value without items of its own.                   *)
(***************************************************************************)
POSITIONAL_ONLY == 0
POSITIONAL_OR_KEYWORD == 1
VAR_POSITIONAL == 2
KEYWORD_ONLY == 3
VAR_KEYWORD == 4

TSingle(t) == [isType |-> TRUE, members |-> <<t>>]
TTuple(ts) == [isType |-> FALSE, members |-> ts]
Empty == TSingle("_empty")

Scalar(t) == [type |-> t, items |-> <<>>, fn |-> ""]
\* The function object of the function named nm
FuncValue(nm) == [type |-> "function", items |-> <<>>, fn |-> nm]
\* callable(v)
IsCallable(v) == v.type = "function"
\* str(i) for a tuple index i, counted from 0
IndexKey(i) == <<"0", "1", "2", "3", "4", "5", "6", "7">>[i + 1]
\* tuple(vals)
TupleOf(vals) ==
    [type |-> "tuple", fn |-> "",
     items |-> [i \in 1..Len(vals) |-> [key |-> IndexKey(i - 1), val |-> vals[i]]]]
\* dict(pairs), pairs a sequence of [name, val]
DictOf(pairs) ==
    [type |-> "dict", fn |-> "",
     items |-> [i \in 1..Len(pairs) |-> [key |-> pairs[i].name, val |-> pairs[i].val]]]

Param(nm, kd, ann) == [name |-> nm, kind |-> kd, annotation |-> ann]
\* A callable; hasSig is whether inspect.signature(func) finds a signature
\* (it raises ValueError for a builtin class such as int or str).
Func(nm, ps) == [name |-> nm, params |-> ps, hasSig |-> TRUE]
BuiltinClass(nm) == [name |-> nm, params |-> <<>>, hasSig |-> FALSE]

\* The concatenation of a sequence of sequences
RECURSIVE Flatten(_)
Flatten(seqs) == IF seqs = <<>> THEN <<>> ELSE Head(seqs) \o Flatten(Tail(seqs))

KwNames(kwargs) == {kwargs[i].name : i \in 1..Len(kwargs)}
KwGet(kwargs, nm) == kwargs[CHOOSE i \in 1..Len(kwargs) : kwargs[i].name = nm].val
Min(u, v) == IF u <= v THEN u ELSE v

\* The parameters that take positional arguments
NumPositional(params) ==
    Cardinality({i \in 1..Len(params) :
                    params[i].kind \in {POSITIONAL_ONLY, POSITIONAL_OR_KEYWORD}})
HasKind(params, kd) == \E i \in 1..Len(params) : params[i].kind = kd

\* Parameter i can be bound by a keyword argument: it comes after the
\* nbound positionally bound ones, is neither *args nor **kwargs, and its
\* name is among the keyword arguments' names
ByName(params, nbound, names, i) ==
    /\ i > nbound
    /\ params[i].kind \notin {VAR_POSITIONAL, VAR_KEYWORD}
    /\ params[i].name \in names

\* The keyword arguments no parameter takes by name, for **kwargs
Leftover(params, nbound, kwargs) ==
    SelectSeq(kwargs, LAMBDA e :
        \A i \in 1..Len(params) : ~(ByName(params, nbound, {e.name}, i)))

\* The entry of BoundArguments.arguments for parameter i, as a sequence of
\* at most one element
BoundEntry(params, args, kwargs, np, nbound, leftover, i) ==
    IF i <= nbound
      THEN <<[name |-> params[i].name, form |-> "one", one |-> args[i], many |-> <<>>]>>
    ELSE IF params[i].kind = VAR_POSITIONAL
      THEN IF Len(args) > np
             THEN <<[name |-> params[i].name, form |-> "tuple", one |-> args[1],
                     many |-> SubSeq(args, np + 1, Len(args))]>>
             ELSE <<>>
    ELSE IF params[i].kind = VAR_KEYWORD
      THEN IF leftover # <<>>
             THEN <<[name |-> params[i].name, form |-> "dict", one |-> leftover[1].val,
                     many |-> leftover]>>
             ELSE <<>>
    ELSE IF ByName(params, nbound, KwNames(kwargs), i)
      THEN <<[name |-> params[i].name, form |-> "one",
              one |-> KwGet(kwargs, params[i].name), many |-> <<>>]>>
      ELSE <<>>

\* Signature._bind: whether it raises TypeError
BindFails(params, args, kwargs, np, nbound, leftover) ==
    \/ Len(args) > np /\ ~HasKind(params, VAR_POSITIONAL)     \* too many positional arguments
    \/ \E i \in 1..nbound :                                    \* multiple values for argument
          params[i].kind # POSITIONAL_ONLY /\ params[i].name \in KwNames(kwargs)
    \/ \E i \in 1..Len(params) :                               \* positional only, passed as keyword
          ByName(params, nbound, KwNames(kwargs), i) /\ params[i].kind = POSITIONAL_ONLY
    \/ leftover # <<>> /\ ~HasKind(params, VAR_KEYWORD)        \* unexpected keyword argument

BindWith(params, args, kwargs, np, nbound, leftover) ==
    IF BindFails(params, args, kwargs, np, nbound, leftover)
      THEN [err |-> TRUE, arguments |-> <<>>]
      ELSE [err |-> FALSE,
            arguments |-> Flatten([i \in 1..Len(params) |->
                              BoundEntry(params, args, kwargs, np, nbound, leftover, i)])]

\* Signature.bind_partial(*args, **kwargs): err is whether it raises
\* TypeError; arguments is BoundArguments.arguments in order, each entry
\* [name, form, one, many]: form "one" binds the value one, "tuple" binds the
\* tuple of the values many (a *args parameter), "dict" binds the dict of the
\* [name, val] pairs many (a **kwargs parameter).
BindPartial(params, args, kwargs) ==
    BindWith(params, args, kwargs, NumPositional(params),
             Min(Len(args), NumPositional(params)),
             Leftover(params, Min(Len(args), NumPositional(params)), kwargs))

\* The value an entry of fcallargs.arguments binds
BoundValue(e) ==
    CASE e.form = "one" -> e.one
      [] e.form = "tuple" -> TupleOf(e.many)
      [] e.form = "dict" -> DictOf(e.many)

\* The expected type an entry of tcallargs.arguments binds.  A tuple of
\* expected types bound to *args is itself a tuple: its members are its
\* elements, of which only the classes can equal type(arg); a dict bound to
\* **kwargs iterates as its keys, which are no classes.
BoundType(e) ==
    CASE e.form = "one" -> e.one
      [] e.form = "tuple" ->
           TTuple([i \in 1..Len(e.many) |->
                      IF e.many[i].isType THEN e.many[i].members[1] ELSE "<tuple>"])
      [] e.form = "dict" -> TTuple([i \in 1..Len(e.many) |-> "<key>"])

\* check_type(arg, expected_type, label) does not raise: some expected class
\* is type(arg), Any or the empty annotation
CheckType(arg, expected_type) ==
    \E i \in 1..Len(expected_type.members) :
        expected_type.members[i] \in {arg.type, "Any", "_empty"}

\* The message of the TypeCheckError check_type raises
TypeError_(arg, expected_type, label) ==
    [label |-> label, actual |-> arg.type, expected |-> expected_type]

ParamNamed(func, nm) ==
    func.params[CHOOSE i \in 1..Len(func.params) : func.params[i].name = nm]

NoExc == [exc |-> "", failures |-> <<>>]
Exc(c) == [exc |-> c, failures |-> <<>>]

\* tcallarg of check_call's loop: tcallargs.arguments.get(fparamname,
\* fparam.annotation if use_annotations else _empty)
TCallArg(func, targuments, use_annotations, nm) ==
    IF \E i \in 1..Len(targuments) : targuments[i].name = nm
      THEN BoundType(targuments[CHOOSE i \in 1..Len(targuments) : targuments[i].name = nm])
      ELSE IF use_annotations THEN ParamNamed(func, nm).annotation ELSE Empty

\* The expected type check_call uses for the parameter named nm
ExpectedType(func, targs, tkwargs, use_annotations, nm) ==
    TCallArg(func, BindPartial(func.params, targs, tkwargs).arguments, use_annotations, nm)

\* The first item of a tuple or dict that check_type rejects, as a sequence
\* of at most one failure
FirstBadItem(nm, items, t) ==
    IF \A i \in 1..Len(items) : CheckType(items[i].val, t) THEN <<>>
    ELSE LET b == CHOOSE i \in 1..Len(items) :
                     /\ ~CheckType(items[i].val, t)
                     /\ \A j \in 1..(i - 1) : CheckType(items[j].val, t)
         IN  <<TypeError_(items[b].val, t, <<nm, items[b].key>>)>>

\* One iteration of check_call's loop, for the argument v of parameter
\* fparam with expected type t: attr is whether fcallarg.items() raises
\* AttributeError, add the failures appended
LoopStep(fparam, v, t) ==
    IF fparam.kind = POSITIONAL_OR_KEYWORD
      THEN [attr |-> FALSE,
            add |-> IF CheckType(v, t) THEN <<>> ELSE <<TypeError_(v, t, <<fparam.name>>)>>]
    ELSE IF v.type \notin {"tuple", "dict"}
      THEN [attr |-> TRUE, add |-> <<>>]
    ELSE [attr |-> FALSE, add |-> FirstBadItem(fparam.name, v.items, t)]

\* check_call's loop over fcallargs.arguments, given each iteration's step:
\* it stops at the first AttributeError, else raises TypeCheckError when
\* failures were appended
LoopResult(steps) ==
    IF \E i \in 1..Len(steps) : steps[i].attr THEN Exc("AttributeError")
    ELSE IF \E i \in 1..Len(steps) : steps[i].add # <<>>
      THEN [exc |-> "TypeCheckError",
            failures |-> Flatten([i \in 1..Len(steps) |-> steps[i].add])]
    ELSE NoExc

CheckCallBound(func, fcallargs, tcallargs, check_types, use_annotations) ==
    IF ~func.hasSig THEN Exc("ValueError")
    ELSE IF fcallargs.err THEN Exc("TypeError")
    ELSE IF ~check_types THEN NoExc
    ELSE IF tcallargs.err THEN Exc("TypeError")
    ELSE LoopResult([i \in 1..Len(fcallargs.arguments) |->
            LoopStep(ParamNamed(func, fcallargs.arguments[i].name),
                     BoundValue(fcallargs.arguments[i]),
                     TCallArg(func, tcallargs.arguments, use_annotations,
                              fcallargs.arguments[i].name))])

\* check_call(func, fargs, fkwargs, targs, tkwargs, check_types,
\* use_annotations): the exception it raises ("" when it returns) and, for
\* TypeCheckError, the failures joined into its message (without the header
\* line inserted in front).
CheckCall(func, fargs, fkwargs, targs, tkwargs, check_types, use_annotations) ==
    CheckCallBound(func, BindPartial(func.params, fargs, fkwargs),
                   BindPartial(func.params, targs, tkwargs), check_types, use_annotations)

(***************************************************************************)
(*   parametrized (decorators/general.py), typeguard (typechecking.py)     *)
(***************************************************************************)

\* An argument of the decorator factory: a class (callable), a tuple or
\* union of classes (not callable), or a function (callable)
ClassArg(t) == [isCallable |-> TRUE, spec |-> TSingle(t), func |-> BuiltinClass(t)]
TupleArg(ts) == [isCallable |-> FALSE, spec |-> TTuple(ts), func |-> BuiltinClass("tuple")]
FuncArg(f) == [isCallable |-> TRUE, spec |-> Empty, func |-> f]

\* The types the programmer supplied, as check_call is to receive them
SpecsOf(ds) == [i \in 1..Len(ds) |-> ds[i].spec]
KwSpecsOf(dk) == [i \in 1..Len(dk) |-> [name |-> dk[i].name, val |-> dk[i].val.spec]]

\* The functions being guarded.  No parameter has a default value.
GuardFuncs ==
    { Func("f_ab", <<Param("a", POSITIONAL_OR_KEYWORD, TSingle("int")),
                     Param("b", POSITIONAL_OR_KEYWORD, TSingle("str"))>>),
      Func("f_un", <<Param("a", POSITIONAL_OR_KEYWORD, Empty),
                     Param("b", POSITIONAL_OR_KEYWORD, TTuple(<<"int", "str">>))>>),
      Func("f_any", <<Param("a", POSITIONAL_OR_KEYWORD, TSingle("Any"))>>),
      Func("f_po", <<Param("x", POSITIONAL_ONLY, TSingle("int"))>>),
      Func("f_kw", <<Param("a", POSITIONAL_OR_KEYWORD, TSingle("int")),
                     Param("n", KEYWORD_ONLY, TSingle("int"))>>),
      Func("f_va", <<Param("a", POSITIONAL_OR_KEYWORD, TSingle("int")),
                     Param("args", VAR_POSITIONAL, TSingle("str"))>>),
      Func("f_kk", <<Param("a", POSITIONAL_OR_KEYWORD, TSingle("int")),
                     Param("kw", VAR_KEYWORD, TSingle("int"))>>) }

GuardDargs ==
    { <<>>,
      <<TupleArg(<<"str">>)>>,
      <<TupleArg(<<"int", "str">>), TupleArg(<<"int">>)>>,
      <<ClassArg("int")>>,
      <<ClassArg("str"), ClassArg("int")>>,
      <<TupleArg(<<"str">>), ClassArg("int")>> }

GuardDkwargs ==
    { <<>>,
      <<[name |-> "b", val |-> ClassArg("int")]>>,
      <<[name |-> "n", val |-> ClassArg("str")]>>,
      <<[name |-> "a", val |-> ClassArg("str")]>> }

GuardValues ==
    {Scalar("int"), Scalar("str"), DictOf(<<>>), TupleOf(<<Scalar("int")>>)}

GuardFargs == UNION {[1..m -> GuardValues] : m \in 0..MaxArgs}

GuardFkwargs ==
    { <<>>,
      <<[name |-> "b", val |-> Scalar("str")]>>,
      <<[name |-> "b", val |-> Scalar("int")]>>,
      <<[name |-> "n", val |-> Scalar("int")]>>,
      <<[name |-> "n", val |-> DictOf(<<>>)]>>,
      <<[name |-> "z", val |-> Scalar("int")]>> }

\* decorator_factory(*dargs, **dkwargs) of parametrized(decorator): when
\* dargs[0] exists and is callable it is taken as the function to decorate
\* and the decorator is applied to it at once; otherwise the filled decorator
\* is returned, to be applied to the function.
DecoratorFactory(ds, dk) ==
    IF ds # <<>> /\ ds[1].isCallable
      THEN [kind |-> "wrapper", func |-> ds[1].func, targs |-> SpecsOf(Tail(ds)),
            tkwargs |-> KwSpecsOf(dk)]
      ELSE [kind |-> "decorator", func |-> BuiltinClass("None"), targs |-> SpecsOf(ds),
            tkwargs |-> KwSpecsOf(dk)]

\* A function called with *fargs, **fkwargs does not run its body when the
\* call does not bind its signature or leaves a parameter without a value
\* (Python raises TypeError); no parameter of the model has a default.
AllBound(func, b) ==
    /\ func.hasSig
    /\ ~b.err
    /\ \A i \in 1..Len(func.params) :
          func.params[i].kind \notin {VAR_POSITIONAL, VAR_KEYWORD}
            => \E j \in 1..Len(b.arguments) : b.arguments[j].name = func.params[i].name
CanRun(func, fargs, fkwargs) == AllBound(func, BindPartial(func.params, fargs, fkwargs))

NoCall == [fargs |-> <<>>, fkwargs |-> <<>>, exc |-> "", failures |-> <<>>, executed |-> 0, ran |-> ""]
NoGuard == [kind |-> "none", func |-> BuiltinClass("None"), targs |-> <<>>, tkwargs |-> <<>>, exc |-> ""]

\* What the wrapper's call did, given check_call's result r
WrapperOutcome(w, fargs, fkwargs, r) ==
    IF r.exc # ""
      THEN [fargs |-> fargs, fkwargs |-> fkwargs, exc |-> r.exc, failures |-> r.failures,
            executed |-> 0, ran |-> ""]
      ELSE IF CanRun(w.func, fargs, fkwargs)
        THEN [fargs |-> fargs, fkwargs |-> fkwargs, exc |-> "", failures |-> <<>>,
              executed |-> 1, ran |-> w.func.name]
        ELSE [fargs |-> fargs, fkwargs |-> fkwargs, exc |-> "TypeError", failures |-> <<>>,
              executed |-> 1, ran |-> ""]

\* typeguard's wrapper called with *fargs, **fkwargs: check_call first, then
\* `return func(*fargs, **fkwargs)`.  executed counts the calls of func, ran
\* names the function whose body ran.
WrapperResult(w, fargs, fkwargs) ==
    WrapperOutcome(w, fargs, fkwargs,
                   CheckCall(w.func, fargs, fkwargs, w.targs, w.tkwargs, TRUE, TRUE))

InitGuard ==
    /\ g_func \in GuardFuncs
    /\ dargs \in GuardDargs
    /\ dkwargs \in GuardDkwargs
    /\ guard = NoGuard
    /\ pc_guard = "define"
    /\ g_call = NoCall

\* `@typeguard(*dargs, **dkwargs)` above `def f`: the factory is called, and
\* what it returns is called with f.  When the factory took dargs[0] for the
\* function, what it returns is already a wrapper (around dargs[0]), and
\* calling it with f is a guarded call of dargs[0].
Misapplied(r, c) ==
    [kind |-> "misapplied", func |-> r.func, targs |-> r.targs, tkwargs |-> r.tkwargs,
     exc |-> c.exc]
Applied(r, f) ==
    IF r.kind = "decorator"
      THEN [kind |-> "wrapper", func |-> f, targs |-> r.targs, tkwargs |-> r.tkwargs, exc |-> ""]
      ELSE Misapplied(r, WrapperResult(r, <<FuncValue(f.name)>>, <<>>))
Decorate ==
    /\ pc_guard = "define"
    /\ guard' = Applied(DecoratorFactory(dargs, dkwargs), g_func)
    /\ pc_guard' = "decorated"
    /\ UNCHANGED <<g_func, dargs, dkwargs, g_call>>
    /\ UNCHANGED othersGuard

\* `@typeguard` above `def f`, without arguments: decorator_factory(f)
Bare(r) == [kind |-> r.kind, func |-> r.func, targs |-> r.targs, tkwargs |-> r.tkwargs, exc |-> ""]
DecorateBare ==
    /\ pc_guard = "define"
    /\ dargs = <<>> /\ dkwargs = <<>>
    /\ guard' = Bare(DecoratorFactory(<<FuncArg(g_func)>>, <<>>))
    /\ pc_guard' = "decorated"
    /\ UNCHANGED <<g_func, dargs, dkwargs, g_call>>
    /\ UNCHANGED othersGuard

\* The guarded function is called
GuardedCall(fargs, fkwargs) ==
    /\ pc_guard = "decorated"
    /\ guard.kind = "wrapper"
    /\ g_call' = WrapperResult(guard, fargs, fkwargs)
    /\ pc_guard' = "called"
    /\ UNCHANGED <<g_func, dargs, dkwargs, guard>>
    /\ UNCHANGED othersGuard

NextGuard ==
    \/ Decorate
    \/ DecorateBare
    \/ \E fargs \in GuardFargs, fkwargs \in GuardFkwargs : GuardedCall(fargs, fkwargs)


(***************************************************************************)
(*              multipledispatch (decorators/typechecking.py)              *)
(***************************************************************************)

\* The implementations that get registered.  No parameter has a default.
DispatchImpls ==
    { Func("h_int", <<Param("a", POSITIONAL_OR_KEYWORD, TSingle("int"))>>),
      Func("h_ss", <<Param("a", POSITIONAL_OR_KEYWORD, TSingle("str")),
                     Param("b", POSITIONAL_OR_KEYWORD, TSingle("str"))>>),
      Func("h_ab", <<Param("a", POSITIONAL_OR_KEYWORD, TSingle("int")),
                     Param("b", POSITIONAL_OR_KEYWORD, TTuple(<<"int", "str">>))>>) }

ImplNames == {f.name : f \in DispatchImpls}
ImplNamed(nm) == CHOOSE f \in DispatchImpls : f.name = nm

DispatchValues == {Scalar("int"), Scalar("str"), FuncValue("h_int")}
DispatchFargs == UNION {[1..m -> DispatchValues] : m \in 0..MaxArgs}
DispatchFkwargs ==
    { <<>>,
      <<[name |-> "b", val |-> Scalar("str")]>>,
      <<[name |-> "z", val |-> Scalar("int")]>> }

\* implementation.__get__(instance, owner) for a plain function: the
\* function itself when instance is None, else the method bound to
\* instance, whose signature lacks the first parameter
BindImpl(impl, instance, owner) ==
    IF instance = "None" THEN impl
    ELSE IF impl.params = <<>> THEN [impl EXCEPT !.hasSig = FALSE]
    ELSE [impl EXCEPT !.params = Tail(impl.params)]

\* The number in front of a failure: f"Implementation {len(self) - n}"
ImplLabelFromTop(len, n) == n + 1
ImplLabel(len, n) == len - n

Header == [impl |-> 0, msg |-> <<>>]

\* dispatcher(*fargs, **fkwargs): exc is the exception that leaves it ("" when
\* it returns), func the position in the registry of the implementation it
\* returns (0: NotImplemented), failures the list it returns.
\* One iteration of dispatcher's loop, given check_call's result r
\* for the implementation at position Len(reg) - n
RECURSIVE DispatcherScan(_, _, _, _, _, _, _, _)
ScanStep(reg, tc, instance, owner, fargs, fkwargs, n, failures, r) ==
    IF r.exc = "TypeCheckError"
      THEN DispatcherScan(reg, tc, instance, owner, fargs, fkwargs, n + 1,
               Append(failures, [impl |-> ImplLabel(Len(reg), n), msg |-> r.failures]))
    ELSE IF r.exc # ""
      THEN [exc |-> r.exc, func |-> 0, failures |-> failures]
    ELSE [exc |-> "", func |-> Len(reg) - n, failures |-> failures]

\* `for n, implementation in enumerate(self.registry[::-1])`, from n on
DispatcherScan(reg, tc, instance, owner, fargs, fkwargs, n, failures) ==
    IF n >= Len(reg)
      THEN [exc |-> "", func |-> 0, failures |-> failures]
    ELSE ScanStep(reg, tc, instance, owner, fargs, fkwargs, n, failures,
            CheckCall(IF instance = "None" /\ owner = "None"
                        THEN ImplNamed(reg[Len(reg) - n])
                        ELSE BindImpl(ImplNamed(reg[Len(reg) - n]), instance, owner),
                      fargs, fkwargs, <<>>, <<>>, tc, TRUE))

Dispatcher(reg, tc, instance, owner, fargs, fkwargs) ==
    DispatcherScan(reg, tc, instance, owner, fargs, fkwargs, 0, <<Header>>)

NoOp == [op |-> "none", fargs |-> <<>>, fkwargs |-> <<>>, exc |-> "", func |-> 0,
         failures |-> <<>>, invoked |-> <<>>, self |-> FALSE]

\* No copy has been made by __get__
NoCopy == [exists |-> FALSE, registry |-> <<>>, typecheck |-> TRUE,
           instance |-> "None", owner |-> "None"]

InitDispatch ==
    /\ \E base_case \in ImplNames \cup {"None"} :
          registry = IF base_case = "None" THEN <<>> ELSE <<base_case>>
    /\ typecheck \in BOOLEAN
    /\ d_instance = "None"
    /\ d_owner = "None"
    /\ d_copy = NoCopy
    /\ d_last = NoOp

\* The same loop inserting each implementation at the front of the list
RegisterIntoFront(reg, implementations) ==
    [i \in 1..Len(implementations) |->
        implementations[Len(implementations) + 1 - i]] \o reg

\* `for implementation in implementations: self.registry.append(implementation)`
RegisterInto(reg, implementations) == reg \o implementations

\* The function objects of the implementations named
FuncValues(implementations) ==
    [i \in 1..Len(implementations) |-> FuncValue(implementations[i])]

\* register(*implementations): appends each one, returns self
Register(implementations) ==
    /\ d_last.op = "none"
    /\ Len(registry) + Len(implementations) <= MaxRegistry
    /\ registry' = RegisterInto(registry, implementations)
    /\ d_last' = [NoOp EXCEPT !.op = "register", !.fargs = FuncValues(implementations),
                              !.self = TRUE]
    /\ UNCHANGED <<typecheck, d_instance, d_owner, d_copy>>
    /\ UNCHANGED othersDispatch

\* dispatcher(*fargs, **fkwargs) called on its own
DispatcherRecord(fargs, fkwargs, r) ==
    [NoOp EXCEPT !.op = "dispatcher", !.fargs = fargs, !.fkwargs = fkwargs,
                 !.exc = r.exc, !.func = r.func, !.failures = r.failures]
CallDispatcher(fargs, fkwargs) ==
    /\ d_last.op = "none"
    /\ d_last' = DispatcherRecord(fargs, fkwargs,
                    Dispatcher(registry, typecheck, d_instance, d_owner, fargs, fkwargs))
    /\ UNCHANGED <<registry, typecheck, d_instance, d_owner, d_copy>>
    /\ UNCHANGED othersDispatch

\* The end of __call__, given dispatcher's result r: NotImplementedError
\* when no implementation was found, else `implementation(*fargs, **fkwargs)`
CallRecord(reg, instance, owner, fargs, fkwargs, r) ==
    IF r.exc # ""
      THEN [NoOp EXCEPT !.op = "call", !.fargs = fargs, !.fkwargs = fkwargs,
                        !.exc = r.exc, !.failures = r.failures]
    ELSE IF r.func = 0
      THEN [NoOp EXCEPT !.op = "call", !.fargs = fargs, !.fkwargs = fkwargs,
                        !.exc = "NotImplementedError", !.failures = r.failures]
    ELSE [NoOp EXCEPT !.op = "call", !.fargs = fargs, !.fkwargs = fkwargs,
                      !.func = r.func, !.failures = r.failures, !.invoked = <<r.func>>,
                      !.exc = IF CanRun(BindImpl(ImplNamed(reg[r.func]), instance, owner),
                                        fargs, fkwargs)
                                THEN "" ELSE "TypeError"]

\* __call__(*fargs, **fkwargs)
Call(fargs, fkwargs) ==
    /\ d_last.op = "none"
    /\ IF fargs = <<>>
         THEN \* fargs[0] raises IndexError
              /\ d_last' = [NoOp EXCEPT !.op = "call", !.fkwargs = fkwargs, !.exc = "IndexError"]
              /\ UNCHANGED <<registry, typecheck, d_instance, d_owner, d_copy>>
       ELSE IF IsCallable(fargs[1]) /\ registry = <<>>
         THEN \* no base case yet: decorate it now
              /\ registry' = registry \o <<fargs[1].fn>>
              /\ d_last' = [NoOp EXCEPT !.op = "call", !.fargs = fargs, !.fkwargs = fkwargs,
                                        !.self = TRUE]
              /\ UNCHANGED <<typecheck, d_instance, d_owner, d_copy>>
       ELSE /\ d_last' = CallRecord(registry, d_instance, d_owner, fargs, fkwargs,
                            Dispatcher(registry, typecheck, d_instance, d_owner, fargs, fkwargs))
            /\ UNCHANGED <<registry, typecheck, d_instance, d_owner, d_copy>>
    /\ UNCHANGED othersDispatch

\* The caller has taken what the last operation returned or raised; the
\* object is as the operation left it
Return ==
    /\ d_last.op \in {"register", "dispatcher", "call", "get", "copy.register", "copy.call"}
    /\ d_last' = NoOp
    /\ UNCHANGED <<registry, typecheck, d_instance, d_owner, d_copy>>
    /\ UNCHANGED othersDispatch

NextDispatch ==
    \/ \E implementations \in UNION {[1..m -> ImplNames] : m \in 0..2} :
          Register(implementations)
    \/ \E fargs \in DispatchFargs, fkwargs \in DispatchFkwargs : CallDispatcher(fargs, fkwargs)
    \/ \E fargs \in DispatchFargs, fkwargs \in DispatchFkwargs : Call(fargs, fkwargs)
    \/ Return

\* What __get__ binds to: an instance or None, its class or None
Instances == {"None", "obj"}
Owners == {"None", "Cls"}

\* `copy = self.__class__(None, self.typecheck, instance, owner)` followed by
\* `copy.register(*self.registry)`: a new object with a list of its own
CopyOf(reg, tc, instance, owner) ==
    [exists |-> TRUE, registry |-> RegisterInto(<<>>, reg), typecheck |-> tc,
     instance |-> instance, owner |-> owner]

\* __get__(instance, owner) on the object: the object itself when the
\* bindings are its own, else a bound copy
Get(instance, owner) ==
    /\ d_last.op = "none"
    /\ IF instance = d_instance /\ owner = d_owner
         THEN /\ d_last' = [NoOp EXCEPT !.op = "get", !.self = TRUE]
              /\ UNCHANGED d_copy
         ELSE /\ d_copy' = CopyOf(registry, typecheck, instance, owner)
              /\ d_last' = [NoOp EXCEPT !.op = "get"]
    /\ UNCHANGED <<registry, typecheck, d_instance, d_owner>>
    /\ UNCHANGED othersDispatch

\* register(*implementations) on the copy
CopyRegister(implementations) ==
    /\ d_last.op = "none"
    /\ d_copy.exists
    /\ Len(d_copy.registry) + Len(implementations) <= MaxRegistry
    /\ d_copy' = [d_copy EXCEPT !.registry = RegisterInto(d_copy.registry, implementations)]
    /\ d_last' = [NoOp EXCEPT !.op = "copy.register", !.fargs = FuncValues(implementations),
                              !.self = TRUE]
    /\ UNCHANGED <<registry, typecheck, d_instance, d_owner>>
    /\ UNCHANGED othersDispatch

\* The record of a call on the copy
OnCopy(rec) == [rec EXCEPT !.op = "copy.call"]

\* __call__(*fargs, **fkwargs) on the copy
CopyCall(fargs, fkwargs) ==
    /\ d_last.op = "none"
    /\ d_copy.exists
    /\ IF fargs = <<>>
         THEN /\ d_last' = [NoOp EXCEPT !.op = "copy.call", !.fkwargs = fkwargs,
                                        !.exc = "IndexError"]
              /\ UNCHANGED d_copy
       ELSE IF IsCallable(fargs[1]) /\ d_copy.registry = <<>>
         THEN /\ d_copy' = [d_copy EXCEPT !.registry = RegisterInto(d_copy.registry, <<fargs[1].fn>>)]
              /\ d_last' = [NoOp EXCEPT !.op = "copy.call", !.fargs = fargs,
                                        !.fkwargs = fkwargs, !.self = TRUE]
       ELSE /\ d_last' = OnCopy(CallRecord(d_copy.registry, d_copy.instance, d_copy.owner,
                                           fargs, fkwargs,
                                           Dispatcher(d_copy.registry, d_copy.typecheck,
                                                      d_copy.instance, d_copy.owner,
                                                      fargs, fkwargs)))
            /\ UNCHANGED d_copy
    /\ UNCHANGED <<registry, typecheck, d_instance, d_owner>>
    /\ UNCHANGED othersDispatch

\* The implementations registered and the calls made around __get__
GetImpls == {"h_int", "h_ss"}
GetFargs ==
    { <<>>, <<Scalar("int")>>, <<Scalar("str")>>, <<Scalar("str"), Scalar("str")>>,
      <<FuncValue("h_int")>> }

NextGet ==
    \/ \E implementations \in UNION {[1..m -> GetImpls] : m \in 0..2} :
          Register(implementations)
    \/ \E instance \in Instances, owner \in Owners : Get(instance, owner)
    \/ \E implementations \in UNION {[1..m -> GetImpls] : m \in 0..2} :
          CopyRegister(implementations)
    \/ \E fargs \in GetFargs : CallDispatcher(fargs, <<>>)
    \/ \E fargs \in GetFargs : Call(fargs, <<>>)
    \/ \E fargs \in GetFargs : CopyCall(fargs, <<>>)
    \/ Return

(***************************************************************************)
(*                                 retry                                   *)
(*                 src/toolbox/decorators/other.py                         *)
(***************************************************************************)

\* The exception classes func may raise.
ExcClasses == {"ValueError", "KeyError"}

\* The tuples of classes the decorator is configured with; (Exception,) is the default.
ExceptionTuples == {{"Exception"}, {"ValueError"}, {"ValueError", "KeyError"}}

\* issubclass(c, e) over the classes of the model.
IsSubclass(c, e) == c = e \/ e = "Exception"

\* `except exceptions as e`: the raised class is caught by the tuple.
Caught(c, excs) == \E e \in excs : IsSubclass(c, e)

NoOutcome == [kind |-> "none", value |-> 0, exc |-> "", cause |-> 0]

\* `return func(*args, **kwargs)`: the value of the n-th call of func.
Returned(n) == [kind |-> "return", value |-> n, exc |-> "", cause |-> 0]

\* An exception of class c leaving the wrapper; cause is the call of func
\* whose exception is its __cause__ (0: no cause); value is the call that
\* raised it when it is func's own exception.
Raised(c, n, cause) == [kind |-> "raise", value |-> n, exc |-> c, cause |-> cause]

\* `delay > 0 and attempt < max_retries` (line 36)
ShouldSleepAlways(d, a, mr) == d > 0
ShouldSleep(d, a, mr) == d > 0 /\ a < mr

\* `attempt == max_retries` (line 38)
IsLastAttemptNever(a, mr) == a > mr
IsLastAttempt(a, mr) == a = mr

InitRetry ==
    /\ max_retries \in -1..MaxRetries
    /\ exceptions \in ExceptionTuples
    /\ delay \in {0, 1}
    /\ pc_retry = "decorated"
    /\ attempt = 0
    /\ calls = <<>>
    /\ sleeps = 0
    /\ outcome = NoOutcome

\* wrapper is entered: `for attempt in range(max_retries + 1)` starts, or is
\* skipped when the range is empty.
WrapperCall ==
    /\ pc_retry = "decorated"
    /\ pc_retry' = IF max_retries + 1 > 0 THEN "loop" ELSE "tail"
    /\ attempt' = 0
    /\ UNCHANGED <<max_retries, exceptions, delay, calls, sleeps, outcome>>
    /\ UNCHANGED othersRetry

\* One iteration of the loop in which func returns: `return func(...)`.
AttemptReturns ==
    /\ pc_retry = "loop"
    /\ calls' = Append(calls, "ok")
    /\ outcome' = Returned(Len(calls) + 1)
    /\ pc_retry' = "done"
    /\ UNCHANGED <<max_retries, exceptions, delay, attempt, sleeps>>
    /\ UNCHANGED othersRetry

\* One iteration of the loop in which func raises an exception of class c.
AttemptRaises(c) ==
    /\ pc_retry = "loop"
    /\ calls' = Append(calls, c)
    /\ IF ~Caught(c, exceptions)
         THEN \* not listed: the exception leaves the wrapper as it is
              /\ outcome' = Raised(c, Len(calls) + 1, 0)
              /\ pc_retry' = "done"
              /\ UNCHANGED <<attempt, sleeps>>
         ELSE IF ShouldSleep(delay, attempt, max_retries)
           THEN /\ sleeps' = sleeps + 1
                /\ attempt' = attempt + 1
                /\ pc_retry' = IF attempt + 1 <= max_retries THEN "loop" ELSE "tail"
                /\ UNCHANGED outcome
           ELSE IF IsLastAttempt(attempt, max_retries)
             THEN /\ outcome' = Raised("RuntimeError", 0, Len(calls) + 1)
                  /\ pc_retry' = "done"
                  /\ UNCHANGED <<attempt, sleeps>>
             ELSE /\ attempt' = attempt + 1
                  /\ pc_retry' = IF attempt + 1 <= max_retries THEN "loop" ELSE "tail"
                  /\ UNCHANGED <<outcome, sleeps>>
    /\ UNCHANGED <<max_retries, exceptions, delay>>
    /\ UNCHANGED othersRetry

\* The statement after the loop (line 42), reached when the loop ended
\* without returning or raising: `return func(*args, **kwargs)`.
TailReturns ==
    /\ pc_retry = "tail"
    /\ calls' = Append(calls, "ok")
    /\ outcome' = Returned(Len(calls) + 1)
    /\ pc_retry' = "done"
    /\ UNCHANGED <<max_retries, exceptions, delay, attempt, sleeps>>
    /\ UNCHANGED othersRetry

TailRaises(c) ==
    /\ pc_retry = "tail"
    /\ calls' = Append(calls, c)
    /\ outcome' = Raised(c, Len(calls) + 1, 0)
    /\ pc_retry' = "done"
    /\ UNCHANGED <<max_retries, exceptions, delay, attempt, sleeps>>
    /\ UNCHANGED othersRetry

\* Every call of func made so far raised an exception the decorator lists.
AllAttemptsCaught ==
    \A i \in 1..Len(calls) : calls[i] \in ExcClasses /\ Caught(calls[i], exceptions)

NextRetry ==
    \/ WrapperCall
    \/ AttemptReturns
    \/ \E c \in ExcClasses : AttemptRaises(c)
    \/ TailReturns
    \/ \E c \in ExcClasses : TailRaises(c)

(***************************************************************************)
(* The specifications, one per subsystem.  While one subsystem runs, the   *)
(* variables of the others keep the values given here.                     *)
(***************************************************************************)
IdleRetry ==
    /\ max_retries = 0 /\ exceptions = {"Exception"} /\ delay = 0
    /\ pc_retry = "idle" /\ attempt = 0 /\ calls = <<>> /\ sleeps = 0
    /\ outcome = NoOutcome

IdleCheb ==
    /\ cheb_a = 0 /\ cheb_b = 0 /\ cheb_n = 0 /\ k = 0
    /\ grid = <<>> /\ x_i = <<>> /\ D1 = <<>> /\ D = <<>>
    /\ pc_dop = "idle" /\ iter = 0 /\ y_i = <<>> /\ dy = <<>>

IdleRel ==
    /\ coords = <<>> /\ origin = <<R(0), R(0)>> /\ angle = "0" /\ entry = <<>>
    /\ pc_rel = "idle" /\ body_wrote = {} /\ body_left = <<>> /\ body_raised = FALSE

IdleGuard ==
    /\ g_func = BuiltinClass("None") /\ dargs = <<>> /\ dkwargs = <<>>
    /\ guard = NoGuard /\ pc_guard = "idle" /\ g_call = NoCall

IdleDispatch ==
    /\ registry = <<>> /\ typecheck = TRUE /\ d_instance = "None" /\ d_owner = "None"
    /\ d_copy = NoCopy
    /\ d_last = [NoOp EXCEPT !.op = "idle"]

InitRetrySpec == InitRetry /\ IdleCheb /\ IdleRel /\ IdleGuard /\ IdleDispatch
SpecRetry == InitRetrySpec /\ [][NextRetry]_vars

InitChebSpec == IdleRetry /\ InitCheb /\ IdleRel /\ IdleGuard /\ IdleDispatch
SpecCheb == InitChebSpec /\ [][NextCheb]_vars

InitRelSpec == IdleRetry /\ IdleCheb /\ InitRel /\ IdleGuard /\ IdleDispatch
SpecRel == InitRelSpec /\ [][NextRel]_vars

InitGuardSpec == IdleRetry /\ IdleCheb /\ IdleRel /\ InitGuard /\ IdleDispatch
SpecGuard == InitGuardSpec /\ [][NextGuard]_vars

InitDispatchSpec == IdleRetry /\ IdleCheb /\ IdleRel /\ IdleGuard /\ InitDispatch
SpecDispatch == InitDispatchSpec /\ [][NextDispatch]_vars

SpecGet == InitDispatchSpec /\ [][NextGet]_vars

\* All of them: one subsystem runs, whichever the initial state starts
Init == InitRetrySpec \/ InitChebSpec \/ InitRelSpec \/ InitGuardSpec \/ InitDispatchSpec
Next == NextRetry \/ NextCheb \/ NextRel \/ NextGuard \/ NextDispatch \/ NextGet
Spec == Init /\ [][Next]_vars

----
\* C1: with max_retries >= 0 one wrapper call calls func at most
\* max_retries + 1 times; exactly max_retries + 1 times when every attempt
\* raised a listed exception; exactly once, returning that call's result,
\* when the first attempt succeeded; and a successful call of func is always
\* the last one (no attempt follows it).
C1_RetryCallCount ==
    max_retries >= 0 =>
        /\ Len(calls) <= max_retries + 1
        /\ \A i \in 1..Len(calls) : calls[i] = "ok" => i = Len(calls)
        /\ (pc_retry = "done" /\ AllAttemptsCaught)
              => Len(calls) = max_retries + 1
        /\ (Len(calls) >= 1 /\ calls[1] = "ok")
              => (pc_retry = "done" /\ Len(calls) = 1 /\ outcome = Returned(1))
        /\ (pc_retry = "done" /\ calls[Len(calls)] = "ok") => outcome = Returned(Len(calls))

\* The worst case happened: every one of max_retries + 1 >= 3 attempts failed.
C1_Witness ==
    /\ pc_retry = "done" /\ max_retries >= 2
    /\ Len(calls) = max_retries + 1
    /\ AllAttemptsCaught

\* C2: when every one of the max_retries + 1 attempts raised a listed
\* exception the wrapper has raised RuntimeError whose cause is the exception
\* of the last attempt, and RuntimeError is never raised before attempt
\* max_retries + 1 has failed, for every delay.
C2_RetryExhausted ==
    max_retries >= 0 =>
        /\ (/\ Len(calls) = max_retries + 1
            /\ AllAttemptsCaught)
              => (pc_retry = "done" /\ outcome = Raised("RuntimeError", 0, max_retries + 1))
        /\ outcome.exc = "RuntimeError"
              => (/\ Len(calls) = max_retries + 1
                  /\ outcome.cause = Len(calls)
                  /\ AllAttemptsCaught)

\* All attempts failed with a positive delay between them.
C2_Witness ==
    /\ pc_retry = "done" /\ max_retries >= 2 /\ delay > 0
    /\ sleeps = max_retries
    /\ outcome = Raised("RuntimeError", 0, max_retries + 1)

----
\* Whether the argument bound by entry e of fcallargs.arguments has the type
\* expected of it: the value itself for an ordinary parameter, every item
\* for *args and **kwargs
ArgMatches(func, targs, tkwargs, e) ==
    IF ParamNamed(func, e.name).kind \in {VAR_POSITIONAL, VAR_KEYWORD}
      THEN \A i \in 1..Len(BoundValue(e).items) :
              CheckType(BoundValue(e).items[i].val,
                        ExpectedType(func, targs, tkwargs, TRUE, e.name))
      ELSE CheckType(BoundValue(e), ExpectedType(func, targs, tkwargs, TRUE, e.name))

AllArgsMatch(func, targs, tkwargs, fargs, fkwargs) ==
    \A i \in 1..Len(BindPartial(func.params, fargs, fkwargs).arguments) :
        ArgMatches(func, targs, tkwargs, BindPartial(func.params, fargs, fkwargs).arguments[i])

\* C3: a call of a typeguard-wrapped function f whose arguments and supplied
\* types bind to f's signature raises TypeCheckError without executing f
\* when some bound argument's type does not match its expected type, and
\* executes f exactly once, returning its result, when every bound argument
\* matches.
C3_GuardRaisesOrRuns ==
    (/\ pc_guard = "called"
     /\ guard.func = g_func
     /\ ~BindPartial(g_func.params, g_call.fargs, g_call.fkwargs).err
     /\ ~BindPartial(g_func.params, guard.targs, guard.tkwargs).err)
    => IF AllArgsMatch(g_func, guard.targs, guard.tkwargs, g_call.fargs, g_call.fkwargs)
         THEN /\ g_call.executed = 1
              /\ CanRun(g_func, g_call.fargs, g_call.fkwargs)
                    => (g_call.exc = "" /\ g_call.ran = g_func.name)
         ELSE g_call.exc = "TypeCheckError" /\ g_call.executed = 0

\* The type supplied for parameter i of f: the i-th positional type, else the
\* keyword type of its name, else f's annotation
SuppliedType(f, ds, dk, i) ==
    IF i <= Len(ds) /\ f.params[i].kind \in {POSITIONAL_ONLY, POSITIONAL_OR_KEYWORD}
      THEN ds[i].spec
    ELSE IF f.params[i].name \in KwNames(dk)
      THEN KwGet(dk, f.params[i].name).spec
    ELSE f.params[i].annotation

\* C10: after `@typeguard(T1, ..., Tn, **tkwargs)` on f, the guarded object
\* is f itself, the i-th positional parameter of f is checked against Ti, a
\* parameter named in tkwargs against that type, and every other parameter
\* against f's annotation.
C10_GuardChecksSuppliedTypes ==
    (/\ pc_guard # "define"
     /\ ~BindPartial(g_func.params, SpecsOf(dargs), KwSpecsOf(dkwargs)).err)
    => /\ guard.kind = "wrapper"
       /\ guard.func = g_func
       /\ \A i \in 1..Len(g_func.params) :
             g_func.params[i].kind \in {POSITIONAL_ONLY, POSITIONAL_OR_KEYWORD, KEYWORD_ONLY}
               => ExpectedType(guard.func, guard.targs, guard.tkwargs, TRUE,
                               g_func.params[i].name)
                    = SuppliedType(g_func, dargs, dkwargs, i)

\* Whether the implementation matches the call: the arguments bind to its
\* signature and, with typecheck, every bound argument has its annotated type
ImplMatches(impl, tc, fargs, fkwargs) ==
    /\ ~BindPartial(impl.params, fargs, fkwargs).err
    /\ tc => AllArgsMatch(impl, <<>>, <<>>, fargs, fkwargs)

\* C4: with a non-empty registry of which no implementation matches the call
\* (by signature or by types), dispatcher returns NotImplemented and
\* __call__ raises NotImplementedError without invoking an implementation.
C4_NoMatchNotImplemented ==
    (/\ d_last.op \in {"dispatcher", "call"}
     /\ ~d_last.self
     /\ registry # <<>>
     /\ d_last.fargs # <<>>
     /\ \A i \in 1..Len(registry) :
           ~ImplMatches(ImplNamed(registry[i]), typecheck, d_last.fargs, d_last.fkwargs))
    => /\ d_last.op = "dispatcher" => (d_last.exc = "" /\ d_last.func = 0)
       /\ d_last.op = "call" => (d_last.exc = "NotImplementedError" /\ d_last.invoked = <<>>)

\* C5: the message of the NotImplementedError a dispatch call raises is the
\* header line followed by exactly one failure per registered implementation,
\* the j-th of them labelled 'Implementation i' with i = len - j + 1 the
\* 1-based position in the registry of the implementation that failed:
\* from the most to the least recently registered.
C5_FailureMessage ==
    d_last.exc = "NotImplementedError" =>
        /\ Len(d_last.failures) = Len(registry) + 1
        /\ d_last.failures[1] = Header
        /\ \A j \in 1..Len(registry) :
              /\ d_last.failures[j + 1].impl = Len(registry) - j + 1
              /\ d_last.failures[j + 1].msg # <<>>
              /\ d_last.failures[j + 1].msg =
                    CheckCall(ImplNamed(registry[Len(registry) - j + 1]), d_last.fargs,
                              d_last.fkwargs, <<>>, <<>>, typecheck, TRUE).failures

\* A call failed on a registry of three different implementations
C5_Witness ==
    /\ d_last.op = "call" /\ d_last.exc = "NotImplementedError"
    /\ Len(registry) = 3
    /\ Cardinality({registry[i] : i \in 1..3}) = 3

\* The statement of C6 for every body: after the with statement, however the
\* body ended, every element of coords equals its value before entry (and
\* inside the body every element the body has not assigned is the translated
\* and rotated entry value).
C6_RelCoordsRestoresAnyBody ==
    /\ pc_rel = "body" =>
          \A j \in (1..Len(coords)) \ body_wrote :
              CAdd(CMul(coords[j], Rotation(angle)), origin) = entry[j]
    /\ pc_rel = "exited" => coords = entry

\* C6: while the body of the with statement runs, every element it has not
\* assigned is the translated and rotated entry value (it maps back to it:
\* c * rotation + origin is the entry value); after the with statement,
\* however the body ended, every element the body did not assign equals its
\* value before entry, and every element the body assigned holds the value
\* the body left there, mapped back: v * rotation + origin.
C6_RelCoordsRestores ==
    /\ pc_rel = "body" =>
          \A j \in (1..Len(coords)) \ body_wrote :
              CAdd(CMul(coords[j], Rotation(angle)), origin) = entry[j]
    /\ pc_rel = "exited" =>
          /\ Len(coords) = Len(entry)
          /\ \A j \in (1..Len(coords)) \ body_wrote : coords[j] = entry[j]
          /\ \A j \in body_wrote :
                coords[j] = CAdd(CMul(body_left[j], Rotation(angle)), origin)

\* The body assigned one of two different elements and raised, in a frame
\* both translated and rotated by a general angle: the other element is
\* back at its entry value, the assigned one is not
C6_Witness ==
    /\ pc_rel = "exited" /\ body_raised /\ body_wrote = {1}
    /\ angle = "atan(4/3)" /\ origin = <<R(1), R(-2)>>
    /\ Len(coords) = 2 /\ entry[1] # entry[2]
    /\ coords[2] = entry[2] /\ coords[1] # entry[1]

\* M multiplied by itself: M^1 = M, M^(p+1) = M @ M^p
RECURSIVE MatPow(_, _)
MatPow(M, p) == IF p <= 1 THEN M ELSE MatMul(M, MatPow(M, p - 1))

\* C7: D_op(x, k) is the k-th power of the first-derivative matrix for
\* k >= 1 and the N-by-N identity for k = 0, and D_op's D1 stays the
\* first-derivative matrix throughout.
C7_DopPower ==
    /\ pc_dop \in {"done", "applied"} =>
          IF k = 0 THEN D = Eye(Len(x_i))
          ELSE D = MatPow(D_op1(x_i), k)
    /\ (pc_dop \in {"loop", "done", "applied"} /\ k >= 1) => D1 = D_op1(x_i)

\* The third derivative on a grid of three points
C7_Witness ==
    /\ pc_dop = "done" /\ k = 3 /\ Len(x_i) = 3
    /\ D # D1
    /\ D = MatMul(MatMul(D1, D1), D1)

IsConstant(v) == \A p, q \in 1..Len(v) : v[p] = v[q]

\* C8: on a grid of N >= 2 pairwise distinct points every row of the
\* first-derivative matrix sums to zero, its diagonal entry being minus the
\* sum of the row's other entries, and D_op(x, k) for k >= 1 applied to a
\* constant vector gives the zero vector.
C8_RowsSumToZero ==
    (Len(x_i) >= 2 /\ PairwiseDistinct(x_i) /\ k >= 1) =>
        /\ pc_dop \in {"loop", "done", "applied"} =>
              \A r \in 1..Len(D1) :
                  /\ RSum(D1[r]) = R(0)
                  /\ D1[r][r] = RNeg(RSum([c \in 1..Len(D1) |->
                                       IF c = r THEN R(0) ELSE D1[r][c]]))
        /\ (pc_dop = "applied" /\ IsConstant(y_i)) =>
              dy = [r \in 1..Len(x_i) |-> R(0)]

\* The second derivative of a non-zero constant on three points
C8_Witness ==
    /\ pc_dop = "applied" /\ k = 2 /\ Len(x_i) = 3
    /\ IsConstant(y_i) /\ y_i[1] = R(2)
    /\ dy = <<R(0), R(0), R(0)>>

\* p lies between u and v
Between(u, p, v) == (RLe(u, p) /\ RLe(p, v)) \/ (RLe(v, p) /\ RLe(p, u))

\* The points of a grid go monotonically from u to v
MonotoneFromTo(g, u, v) ==
    \A j \in 1..(Len(g) - 1) :
        IF RLe(u, v) THEN RLe(g[j], g[j + 1]) ELSE RLe(g[j + 1], g[j])

\* Point j (from 1) of the grid claimed for n >= 2:
\* (b + a)/2 + (b - a)/2 * cos(theta_j), theta_j = pi * (n - j) / (n - 1)
ClaimedPoint(u, v, num, j) ==
    RAdd(RDiv(RAdd(v, u), R(2)),
         RMul(RDiv(RSub(v, u), R(2)), CosPi(RDiv(R(num - j), R(num - 1)))))

\* C9 as claimed: for every n >= 1 the grid has n points, starts at a, ends
\* at b, lies between a and b, is monotone and follows the cosine formula.
C9_ChebspaceEndpointsAnyN ==
    grid # <<>> =>
        /\ Len(grid) = cheb_n
        /\ grid[1] = R(cheb_a)
        /\ grid[cheb_n] = R(cheb_b)
        /\ \A j \in 1..cheb_n : Between(R(cheb_a), grid[j], R(cheb_b))
        /\ MonotoneFromTo(grid, R(cheb_a), R(cheb_b))
        /\ cheb_n >= 2 =>
              \A j \in 1..cheb_n : grid[j] = ClaimedPoint(R(cheb_a), R(cheb_b), cheb_n, j)

\* C9, amended: the grid has n points, starts at a, lies between a and b and
\* is monotone; for n >= 2 it ends at b and follows the cosine formula; for
\* n = 1 it is the single point a.
C9_ChebspaceEndpoints ==
    grid # <<>> =>
        /\ Len(grid) = cheb_n
        /\ grid[1] = R(cheb_a)
        /\ \A j \in 1..cheb_n : Between(R(cheb_a), grid[j], R(cheb_b))
        /\ MonotoneFromTo(grid, R(cheb_a), R(cheb_b))
        /\ cheb_n >= 2 =>
              /\ grid[cheb_n] = R(cheb_b)
              /\ \A j \in 1..cheb_n : grid[j] = ClaimedPoint(R(cheb_a), R(cheb_b), cheb_n, j)
        /\ cheb_n = 1 => grid = <<R(cheb_a)>>

\* A grid of four points on [-1, 1]
C9_Witness ==
    /\ cheb_a = -1 /\ cheb_b = 1 /\ cheb_n = 4
    /\ grid = <<R(-1), <<-1, 2>>, <<1, 2>>, R(1)>>

\* The positions in the registry of the implementations that match the call
MatchingImpls(reg, tc, fargs, fkwargs) ==
    {i \in 1..Len(reg) : ImplMatches(ImplNamed(reg[i]), tc, fargs, fkwargs)}

\* C11: a call on a registry of which some implementation matches the call
\* (its signature binds the arguments and, with typecheck, their types
\* match) invokes exactly one implementation, once: the most recently
\* registered of those that match, and none registered before it.
C11_MostRecentMatchInvoked ==
    (/\ d_last.op = "call"
     /\ ~d_last.self
     /\ d_last.fargs # <<>>
     /\ MatchingImpls(registry, typecheck, d_last.fargs, d_last.fkwargs) # {})
    => /\ Len(d_last.invoked) = 1
       /\ d_last.invoked[1] \in MatchingImpls(registry, typecheck, d_last.fargs, d_last.fkwargs)
       /\ \A i \in MatchingImpls(registry, typecheck, d_last.fargs, d_last.fkwargs) :
             i <= d_last.invoked[1]

\* The names of the function objects passed as arguments
NamesOf(fargs) == [i \in 1..Len(fargs) |-> fargs[i].fn]

\* __call__ decorates: the registry is empty and the first argument callable
Decorates(reg, fargs) == reg = <<>> /\ fargs # <<>> /\ IsCallable(fargs[1])

\* What one operation, recorded in d_last', may do to the registries of the
\* object and of its copy
RegistryStep ==
    /\ d_last'.op = "none" => (registry' = registry /\ d_copy' = d_copy)
    /\ d_last'.op = "register" =>
          /\ registry' = registry \o NamesOf(d_last'.fargs)
          /\ d_copy' = d_copy
    /\ d_last'.op = "dispatcher" => (registry' = registry /\ d_copy' = d_copy)
    /\ d_last'.op = "call" =>
          /\ IF Decorates(registry, d_last'.fargs)
               THEN registry' = registry \o <<d_last'.fargs[1].fn>> /\ d_last'.self
               ELSE registry' = registry /\ ~d_last'.self
          /\ d_copy' = d_copy
    /\ d_last'.op = "get" =>
          /\ registry' = registry
          /\ IF d_last'.self
               THEN d_copy' = d_copy
               ELSE /\ d_copy'.exists
                    /\ d_copy'.registry = registry
                    /\ <<d_copy'.instance, d_copy'.owner>> # <<d_instance, d_owner>>
    /\ d_last'.op = "copy.register" =>
          /\ registry' = registry
          /\ d_copy'.registry = d_copy.registry \o NamesOf(d_last'.fargs)
    /\ d_last'.op = "copy.call" =>
          /\ registry' = registry
          /\ IF Decorates(d_copy.registry, d_last'.fargs)
               THEN d_copy'.registry = d_copy.registry \o <<d_last'.fargs[1].fn>>
               ELSE d_copy'.registry = d_copy.registry

\* C12: the registry changes only by appending at its end: register
\* appends its arguments in order; __call__ appends its first argument, and
\* returns the object, only when the registry is empty and that argument
\* callable; dispatcher, __call__ otherwise and __get__ leave it unchanged;
\* __get__ with other bindings returns a separate object whose registry has
\* the same implementations in the same order, and registering on either
\* object afterwards leaves the other's registry unchanged.
C12_RegistryAppendOnly == [][RegistryStep]_vars

\* After __get__ made a bound copy, an implementation was registered on the
\* object and two on the copy
C12_Witness ==
    /\ d_last.op = "copy.register"
    /\ d_copy.exists /\ d_copy.instance = "obj"
    /\ registry = <<"h_int", "h_ss">>
    /\ d_copy.registry = <<"h_int", "h_ss", "h_int">>

====
